---- MODULE Spec2Model ----
(***************************************************************************)
(* hobofan/smiles-parser: the nom grammar of smiles-parser/src/lib.rs      *)
(* (bytes -> Chain) and the graph lowering of src/graph.rs                 *)
(* (Chain -> MoleculeGraph, implicit hydrogens).                           *)
(*                                                                         *)
(* A byte string is a sequence of one-character strings.  An Option is a   *)
(* sequence of length 0 (None) or 1 (Some).  A nom IResult is a record     *)
(* [ok, rest, val]: ok = FALSE is Err(Error), and then rest and val carry  *)
(* nothing.                                                                *)
(***************************************************************************)
EXTENDS Integers, Sequences, FiniteSets, TLC

\* input: the bytes handed to the parser; overflow_checks: whether the build
\* panics on integer overflow (debug) or wraps (release); pc: how far the
\* pipeline bytes -> Chain -> MoleculeGraph has come; res: the IResult of the
\* recognizer that ran; graph: the MoleculeGraph under construction.
VARIABLES input, overflow_checks, pc, res, graph

vars == <<input, overflow_checks, pc, res, graph>>

(***************************** bounds **************************************)
\* longest byte string enumerated over ChainAlphabet
MaxLen == 4
\* longest byte string enumerated over DefectAlphabet
MaxDefectLen == 4

(************************* nom primitives **********************************)
None == <<>>
Some(v) == <<v>>

\* F applied to the value of v, with v evaluated once
Let(v, F(_)) == CHOOSE out \in {F(r) : r \in {v}} : TRUE

Ok(rest, val) == [ok |-> TRUE, panic |-> FALSE, rest |-> rest, val |-> val]
\* Err(nom::Err::Error(..)): the recoverable failure opt, alt and many0 absorb
Err == [ok |-> FALSE, panic |-> FALSE, rest |-> <<>>, val |-> <<>>]
\* the thread panicked inside the recognizer: nothing is returned
Panicked == [ok |-> FALSE, panic |-> TRUE, rest |-> <<>>, val |-> <<>>]

Drop(s, n) == SubSeq(s, n + 1, Len(s))
Take(s, n) == SubSeq(s, 1, n)

\* nom::bytes::complete::tag
tag(t, in) ==
  IF Len(in) >= Len(t) /\ Take(in, Len(t)) = t THEN Ok(Drop(in, Len(t)), t) ELSE Err

\* alt((tag(..), tag(..), ...)): the first tag of the list that matches
alt_tags(tags, in) ==
  Let({i \in 1..Len(tags) : tag(tags[i], in).ok},
      LAMBDA matching :
        IF matching = {} THEN Err
        ELSE tag(tags[CHOOSE i \in matching : \A j \in matching : i <= j], in))

\* opt(p): the Option of a result r of p, and where the input goes on
opt(r, in) == IF r.ok THEN Ok(r.rest, Some(r.val)) ELSE IF r.panic THEN r ELSE Ok(in, None)

\* nom::character::is_digit
Digits == <<"0", "1", "2", "3", "4", "5", "6", "7", "8", "9">>
is_digit(c) == \E d \in 1..10 : Digits[d] = c
DigitVal(c) == (CHOOSE d \in 1..10 : Digits[d] = c) - 1

RECURSIVE LeadingDigits(_)
LeadingDigits(in) ==
  IF in # <<>> /\ is_digit(Head(in)) THEN 1 + LeadingDigits(Tail(in)) ELSE 0

\* take_while_m_n(m, n, is_digit)
take_while_m_n(m, n, in) ==
  Let(LeadingDigits(in),
      LAMBDA have :
        IF have < m THEN Err
        ELSE IF have < n THEN Ok(Drop(in, have), Take(in, have))
        ELSE Ok(Drop(in, n), Take(in, n)))

\* str::parse::<u8>() / <u16>() of a string of decimal digits
RECURSIVE parse_int(_)
parse_int(ds) ==
  IF ds = <<>> THEN 0
  ELSE 10 * parse_int(Take(ds, Len(ds) - 1)) + DigitVal(ds[Len(ds)])

\* map_res(.., |s| s.parse::<uN>()) on a result r of digits, with uN::MAX = max
parse_number(r, max) ==
  IF ~r.ok THEN Err
  ELSE Let(parse_int(r.val), LAMBDA n : IF n > max THEN Err ELSE Ok(r.rest, n))

\* map_res(map_res(take_while_m_n(m, n, is_digit), from_utf8), parse::<uN>)
digits_number(m, n, max, in) == Let(take_while_m_n(m, n, in), LAMBDA r : parse_number(r, max))

(*************************** symbols ***************************************)
TwoLetterSymbols ==
    <<
       <<"A","c">>, <<"A","g">>, <<"A","l">>, <<"A","m">>, <<"A","r">>, <<"A","s">>,
       <<"A","t">>, <<"A","u">>, <<"B","a">>, <<"B","e">>, <<"B","h">>, <<"B","i">>,
       <<"B","k">>, <<"B","r">>, <<"C","a">>, <<"C","d">>, <<"C","e">>, <<"C","f">>,
       <<"C","l">>, <<"C","m">>, <<"C","n">>, <<"C","o">>, <<"C","r">>, <<"C","s">>,
       <<"C","u">>, <<"D","b">>, <<"D","s">>, <<"D","y">>, <<"E","r">>, <<"E","s">>,
       <<"E","u">>, <<"F","e">>, <<"F","l">>, <<"F","m">>, <<"F","r">>, <<"G","a">>,
       <<"G","d">>, <<"G","e">>, <<"H","e">>, <<"H","f">>, <<"H","g">>, <<"H","o">>,
       <<"H","s">>, <<"I","n">>, <<"I","r">>, <<"K","r">>, <<"L","a">>, <<"L","i">>,
       <<"L","r">>, <<"L","u">>, <<"L","v">>, <<"M","c">>, <<"M","d">>, <<"M","g">>,
       <<"M","n">>, <<"M","o">>, <<"M","t">>, <<"N","a">>, <<"N","b">>, <<"N","d">>,
       <<"N","e">>, <<"N","h">>, <<"N","i">>, <<"N","o">>, <<"N","p">>, <<"O","g">>,
       <<"O","s">>, <<"P","a">>, <<"P","b">>, <<"P","d">>, <<"P","m">>, <<"P","o">>,
       <<"P","r">>, <<"P","t">>, <<"P","u">>, <<"R","a">>, <<"R","b">>, <<"R","e">>,
       <<"R","f">>, <<"R","g">>, <<"R","h">>, <<"R","n">>, <<"R","u">>, <<"S","b">>,
       <<"S","c">>, <<"S","e">>, <<"S","g">>, <<"S","i">>, <<"S","m">>, <<"S","n">>,
       <<"S","r">>, <<"T","a">>, <<"T","b">>, <<"T","c">>, <<"T","e">>, <<"T","h">>,
       <<"T","i">>, <<"T","l">>, <<"T","m">>, <<"T","s">>, <<"X","e">>, <<"Y","b">>,
       <<"Z","n">>, <<"Z","r">>
    >>

OneLetterSymbols ==
    <<
       <<"B">>, <<"C">>, <<"F">>, <<"H">>, <<"I">>, <<"K">>, <<"N">>,
       <<"O">>, <<"P">>, <<"S">>, <<"U">>, <<"V">>, <<"W">>, <<"Y">>
    >>

AromaticSymbols ==
    << <<"s","e">>, <<"a","s">>, <<"b">>, <<"c">>, <<"n">>, <<"o">>, <<"p">>, <<"s">> >>

\* ptable::Element::from_symbol: the element of a symbol, if it is one
ElementNames ==
  {TwoLetterSymbols[i] : i \in 1..Len(TwoLetterSymbols)}
    \cup {OneLetterSymbols[i] : i \in 1..Len(OneLetterSymbols)}
from_symbol(sym) == IF sym \in ElementNames THEN Some(sym) ELSE None

Hydrogen == <<"H">>
Carbon == <<"C">>
Oxygen == <<"O">>
Phosphorus == <<"P">>

\* RawSymbolTags, but with the one-letter symbols before the two-letter ones
RawSymbolTagsOneLetterFirst ==
  << <<"*">> >> \o OneLetterSymbols \o TwoLetterSymbols \o AromaticSymbols

\* the alternatives of raw_symbol, in the order the source lists them
RawSymbolTags ==
  << <<"*">> >> \o TwoLetterSymbols \o OneLetterSymbols \o AromaticSymbols

raw_symbol(in) == alt_tags(RawSymbolTags, in)

AromaticElement(sym) ==
  CASE sym = <<"s","e">> -> <<"S","e">>
    [] sym = <<"a","s">> -> <<"A","s">>
    [] sym = <<"b">> -> <<"B">>
    [] sym = <<"c">> -> <<"C">>
    [] sym = <<"n">> -> <<"N">>
    [] sym = <<"o">> -> <<"O">>
    [] sym = <<"p">> -> <<"P">>
    [] sym = <<"s">> -> <<"S">>

symbol(in) ==
  Let(raw_symbol(in),
      LAMBDA r :
        IF ~r.ok THEN Err
        ELSE IF r.val = <<"*">> THEN Ok(r.rest, [kind |-> "Unknown", element |-> <<>>])
        ELSE IF \E i \in 1..Len(AromaticSymbols) : AromaticSymbols[i] = r.val
          THEN Ok(r.rest, [kind |-> "AromaticSymbol", element |-> AromaticElement(r.val)])
        ELSE IF from_symbol(r.val) = None THEN Err
        ELSE Ok(r.rest, [kind |-> "ElementSymbol", element |-> from_symbol(r.val)[1]]))

(*************************** chirality *************************************)
RECURSIVE Dec(_)
Dec(n) == IF n < 10 THEN <<Digits[n + 1]>> ELSE Dec(n \div 10) \o <<Digits[(n % 10) + 1]>>

ChiralityTag(class, n) == <<"@">> \o class \o Dec(n)
\* tag(b"@<class><a>"), ..., tag(b"@<class><b>") in increasing order
ChiralityTags(class, a, b) == [i \in 1..(b - a + 1) |-> ChiralityTag(class, a + i - 1)]

TH == <<"T", "H">>
AL == <<"A", "L">>
SP == <<"S", "P">>
TB == <<"T", "B">>
OH == <<"O", "H">>

\* the alternatives of raw_chirality, in the order the source lists them
RawChiralityTags ==
  ChiralityTags(TH, 1, 2) \o ChiralityTags(AL, 1, 2) \o ChiralityTags(SP, 1, 3)
    \o ChiralityTags(TB, 10, 20) \o ChiralityTags(TB, 1, 9)
    \o ChiralityTags(OH, 10, 20) \o ChiralityTags(OH, 1, 9)
    \o ChiralityTags(OH, 21, 30)
    \o << <<"@", "@">>, <<"@">> >>

raw_chirality(in) == alt_tags(RawChiralityTags, in)

ChiralityClass(letters) ==
  CASE letters = TH -> "Tetrahedral"
    [] letters = AL -> "Allenal"
    [] letters = SP -> "SquarePlanar"
    [] letters = TB -> "TrigonalBipyramidal"
    [] letters = OH -> "Octahedral"

\* the Chirality of a matched tag: other_str[3..].parse() is its number
chirality_of(sym) ==
  IF sym = <<"@">> THEN [class |-> "Anticlockwise", n |-> 0]
  ELSE IF sym = <<"@", "@">> THEN [class |-> "Clockwise", n |-> 0]
  ELSE [class |-> ChiralityClass(SubSeq(sym, 2, 3)), n |-> parse_int(Drop(sym, 3))]

chirality(in) ==
  Let(raw_chirality(in),
      LAMBDA r : IF ~r.ok THEN r ELSE Ok(r.rest, chirality_of(r.val)))

(************************ bracket atom fields ******************************)
U8Max == 255
U16Max == 65535
I8Min == -128
I8Max == 127

\* charge_run, but a run without digits counts for nothing
charge_run_no_default(in) ==
  Let(alt_tags(<< <<"+">>, <<"-">> >>, in),
      LAMBDA sign :
        IF ~sign.ok THEN Err
        ELSE Let(opt(digits_number(1, 2, U8Max, sign.rest), sign.rest),
                 LAMBDA count :
                   Ok(count.rest,
                      IF sign.val = <<"+">>
                        THEN (IF count.val = None THEN 0 ELSE count.val[1])
                        ELSE -(IF count.val = None THEN 0 ELSE count.val[1]))))

\* one run of charge: a sign and an optional count of one or two digits
charge_run(in) ==
  Let(alt_tags(<< <<"+">>, <<"-">> >>, in),
      LAMBDA sign :
        IF ~sign.ok THEN Err
        ELSE Let(opt(digits_number(1, 2, U8Max, sign.rest), sign.rest),
                 LAMBDA count :
                   Ok(count.rest,
                      IF sign.val = <<"+">>
                        THEN (IF count.val = None THEN 1 ELSE count.val[1])
                        ELSE -(IF count.val = None THEN 1 ELSE count.val[1]))))

\* many0(charge_run): the runs, and what follows them
RECURSIVE many0_charge_run(_)
many0_charge_run(in) ==
  Let(charge_run(in),
      LAMBDA r :
        IF ~r.ok THEN Ok(in, <<>>)
        ELSE Let(many0_charge_run(r.rest),
                 LAMBDA more : Ok(more.rest, <<r.val>> \o more.val)))

\* i8 addition in a build without overflow checks
wrapping_add_i8(a, b) == ((a + b - I8Min) % (U8Max + 1)) + I8Min

\* v.into_iter().fold(0, |acc, x| acc + x) over i8; None when the addition
\* overflows in a build that checks overflow
RECURSIVE fold_add_i8(_, _, _)
fold_add_i8(v, i, acc) ==
  IF i > Len(v) THEN Some(acc)
  ELSE IF acc + v[i] \in I8Min..I8Max THEN fold_add_i8(v, i + 1, acc + v[i])
  ELSE IF overflow_checks THEN None
  ELSE fold_add_i8(v, i + 1, wrapping_add_i8(acc, v[i]))

charge(in) ==
  Let(many0_charge_run(in),
      LAMBDA runs :
        Let(fold_add_i8(runs.val, 1, 0),
            LAMBDA sum : IF sum = None THEN Panicked ELSE Ok(runs.rest, sum[1])))

\* hcount, but an "H" without a digit counts for nothing
hcount_no_default(in) ==
  Let(tag(<<"H">>, in),
      LAMBDA h :
        IF ~h.ok THEN Ok(in, 0)
        ELSE Let(opt(digits_number(1, 1, U8Max, h.rest), h.rest),
                 LAMBDA count :
                   Ok(count.rest, IF count.val = None THEN 0 ELSE count.val[1])))

hcount(in) ==
  Let(tag(<<"H">>, in),
      LAMBDA h :
        IF ~h.ok THEN Ok(in, 0)
        ELSE Let(opt(digits_number(1, 1, U8Max, h.rest), h.rest),
                 LAMBDA count :
                   Ok(count.rest, IF count.val = None THEN 1 ELSE count.val[1])))

isotope_opt(in) == opt(digits_number(1, 3, U16Max, in), in)

\* char(']') after the fields, and the BracketAtom made of them
bracket_atom_close(isotope, sym, chir, h, chg) ==
  Let(tag(<<"]">>, chg.rest),
      LAMBDA close :
        IF ~close.ok THEN Err
        ELSE Ok(close.rest, [isotope |-> isotope.val,
                             symbol |-> sym.val,
                             chiral |-> chir.val,
                             hcount |-> h.val,
                             charge |-> chg.val]))

\* tuple((isotope_opt, symbol, opt(chirality), hcount, charge)) from symbol on
bracket_atom_fields(isotope) ==
  Let(symbol(isotope.rest),
      LAMBDA sym :
        IF ~sym.ok THEN Err
        ELSE Let(opt(chirality(sym.rest), sym.rest),
                 LAMBDA chir :
                   Let(hcount(chir.rest),
                       LAMBDA h :
                         Let(charge(h.rest),
                             LAMBDA chg :
                               IF ~chg.ok THEN chg
                               ELSE bracket_atom_close(isotope, sym, chir, h, chg)))))

bracket_atom(in) ==
  Let(tag(<<"[">>, in),
      LAMBDA open :
        IF ~open.ok THEN Err
        ELSE Let(isotope_opt(open.rest), LAMBDA isotope : bracket_atom_fields(isotope)))

(****************************** atoms **************************************)
RawAliphaticOrganic ==
  << <<"C", "l">>, <<"B", "r">>, <<"B">>, <<"C">>, <<"N">>, <<"O">>, <<"S">>, <<"P">>,
     <<"F">>, <<"I">> >>

raw_aliphatic_organic(in) == alt_tags(RawAliphaticOrganic, in)

aliphatic_organic_atom(in) ==
  Let(raw_aliphatic_organic(in),
      LAMBDA r :
        IF ~r.ok THEN Err
        ELSE IF from_symbol(r.val) = None THEN Err
        ELSE Ok(r.rest, [element |-> from_symbol(r.val)[1]]))

\* alt((map(tag(b"*"), ..), map(bracket_atom, ..), map(aliphatic_organic_atom, ..)))
atom(in) ==
  IF tag(<<"*">>, in).ok THEN Ok(Drop(in, 1), [kind |-> "Unknown", inner |-> <<>>])
  ELSE Let(bracket_atom(in),
           LAMBDA bracket :
             IF bracket.ok THEN Ok(bracket.rest, [kind |-> "Bracket", inner |-> bracket.val])
             ELSE IF bracket.panic THEN bracket
             ELSE Let(aliphatic_organic_atom(in),
                      LAMBDA organic :
                        IF organic.ok
                          THEN Ok(organic.rest,
                                  [kind |-> "AliphaticOrganic", inner |-> organic.val])
                          ELSE Err))

(****************************** bonds **************************************)
RawBond == << <<"-">>, <<"=">>, <<"#">>, <<"$">>, <<":">>, <<"/">>, <<"\\">> >>

raw_bond(in) == alt_tags(RawBond, in)

bond_of_tag(bnd) ==
  CASE bnd = <<"-">> -> "Single"
    [] bnd = <<"=">> -> "Double"
    [] bnd = <<"#">> -> "Triple"
    [] bnd = <<"$">> -> "Quadruple"
    [] bnd = <<":">> -> "Aromatic"
    [] bnd = <<"/">> -> "Up"
    [] bnd = <<"\\">> -> "Down"

bond(in) ==
  Let(raw_bond(in), LAMBDA r : IF ~r.ok THEN Err ELSE Ok(r.rest, bond_of_tag(r.val)))

\* bond_digits_raw, but one digit is enough after the "%"
bond_digits_raw_short(in) ==
  Let(take_while_m_n(1, 1, in),
      LAMBDA one :
        IF one.ok THEN one
        ELSE IF ~tag(<<"%">>, in).ok THEN Err
        ELSE take_while_m_n(1, 2, Drop(in, 1)))

\* alt((take_while_m_n(1, 1, is_digit), preceded(tag(b"%"), take_while_m_n(2, 2, is_digit))))
bond_digits_raw(in) ==
  Let(take_while_m_n(1, 1, in),
      LAMBDA one :
        IF one.ok THEN one
        ELSE IF ~tag(<<"%">>, in).ok THEN Err
        ELSE take_while_m_n(2, 2, Drop(in, 1)))

bond_digits(in) == Let(bond_digits_raw(in), LAMBDA r : parse_number(r, U8Max))

ring_bond(in) ==
  Let(opt(bond(in), in),
      LAMBDA b :
        Let(bond_digits(b.rest),
            LAMBDA n :
              IF ~n.ok THEN Err
              ELSE Ok(n.rest, [bond |-> b.val, ring_number |-> n.val])))

\* many0_ring_bond, but a bond that no ring number follows stays consumed
RECURSIVE many0_ring_bond_eats_bond(_)
many0_ring_bond_eats_bond(in) ==
  Let(ring_bond(in),
      LAMBDA r :
        IF ~r.ok THEN Ok(opt(bond(in), in).rest, <<>>)
        ELSE Let(many0_ring_bond_eats_bond(r.rest),
                 LAMBDA more : Ok(more.rest, <<r.val>> \o more.val)))

RECURSIVE many0_ring_bond(_)
many0_ring_bond(in) ==
  Let(ring_bond(in),
      LAMBDA r :
        IF ~r.ok THEN Ok(in, <<>>)
        ELSE Let(many0_ring_bond(r.rest),
                 LAMBDA more : Ok(more.rest, <<r.val>> \o more.val)))

dot(in) == IF tag(<<".">>, in).ok THEN Ok(Drop(in, 1), "Dot") ELSE Err

\* BondOrDot::Bond(b) is the name of b, BondOrDot::Dot(Dot) is "Dot"
bond_or_dot(in) == Let(bond(in), LAMBDA b : IF b.ok THEN b ELSE dot(in))

(************************ chains and branches ******************************)
RECURSIVE chain(_), branch(_), many0_branch(_), branched_atom(_)

branched_atom(in) ==
  Let(atom(in),
      LAMBDA a :
        IF ~a.ok THEN a
        ELSE Let(many0_ring_bond(a.rest),
                 LAMBDA ring_bonds :
                   Let(many0_branch(ring_bonds.rest),
                       LAMBDA branches :
                         IF ~branches.ok THEN branches
                         ELSE Ok(branches.rest, [atom |-> a.val,
                                                 ring_bonds |-> ring_bonds.val,
                                                 branches |-> branches.val]))))

\* chain, but the separator it reads is not kept
chain_drops_separator(in) ==
  Let(branched_atom(in),
      LAMBDA ba :
        IF ~ba.ok THEN ba
        ELSE Let(opt(bond_or_dot(ba.rest), ba.rest),
                 LAMBDA bod :
                   Let(opt(chain(bod.rest), bod.rest),
                       LAMBDA tail :
                         IF ~tail.ok THEN tail
                         ELSE Ok(tail.rest, [chain |-> tail.val,
                                             bond_or_dot |-> None,
                                             branched_atom |-> ba.val]))))

\* branch, but the end of the input closes a branch as ")" does
branch_closed_by_end(in) ==
  IF ~tag(<<"(">>, in).ok THEN Err
  ELSE Let(opt(bond_or_dot(Drop(in, 1)), Drop(in, 1)),
           LAMBDA bod :
             Let(chain(bod.rest),
                 LAMBDA c :
                   IF ~c.ok THEN c
                   ELSE IF c.rest = <<>> THEN Ok(c.rest, [bond_or_dot |-> bod.val, chain |-> c.val])
                   ELSE IF ~tag(<<")">>, c.rest).ok THEN Err
                   ELSE Ok(Drop(c.rest, 1), [bond_or_dot |-> bod.val, chain |-> c.val])))

\* chain, but a separator is read only when a chain follows it
chain_separator_needs_tail(in) ==
  Let(branched_atom(in),
      LAMBDA ba :
        IF ~ba.ok THEN ba
        ELSE Let(opt(bond_or_dot(ba.rest), ba.rest),
                 LAMBDA bod :
                   Let(opt(chain(bod.rest), bod.rest),
                       LAMBDA tail :
                         IF ~tail.ok THEN tail
                         ELSE IF tail.val = None
                           THEN Ok(ba.rest, [chain |-> None,
                                             bond_or_dot |-> None,
                                             branched_atom |-> ba.val])
                         ELSE Ok(tail.rest, [chain |-> tail.val,
                                             bond_or_dot |-> bod.val,
                                             branched_atom |-> ba.val]))))

chain(in) ==
  Let(branched_atom(in),
      LAMBDA ba :
        IF ~ba.ok THEN ba
        ELSE Let(opt(bond_or_dot(ba.rest), ba.rest),
                 LAMBDA bod :
                   Let(opt(chain(bod.rest), bod.rest),
                       LAMBDA tail :
                         IF ~tail.ok THEN tail
                         ELSE Ok(tail.rest, [chain |-> tail.val,
                                             bond_or_dot |-> bod.val,
                                             branched_atom |-> ba.val]))))

branch(in) ==
  IF ~tag(<<"(">>, in).ok THEN Err
  ELSE Let(opt(bond_or_dot(Drop(in, 1)), Drop(in, 1)),
           LAMBDA bod :
             Let(chain(bod.rest),
                 LAMBDA c :
                   IF ~c.ok THEN c
                   ELSE IF ~tag(<<")">>, c.rest).ok THEN Err
                   ELSE Ok(Drop(c.rest, 1), [bond_or_dot |-> bod.val, chain |-> c.val])))

many0_branch(in) ==
  Let(branch(in),
      LAMBDA r :
        IF r.panic THEN r
        ELSE IF ~r.ok THEN Ok(in, <<>>)
        ELSE Let(many0_branch(r.rest),
                 LAMBDA more :
                   IF more.panic THEN more ELSE Ok(more.rest, <<r.val>> \o more.val)))

(************************** graph lowering *********************************)
\* MoleculeGraph(Graph<Atom, Bond, Undirected>).  NodeIndex i of petgraph is
\* position i + 1 of nodes.  origin is not part of the program: origin[n] is
\* the place in the Chain of the BranchedAtom node n was made for (0 steps into
\* the tail, k >= 1 into the k-th branch), <<-1>> for a hydrogen that
\* fill_graph_with_hydrogen added.  panic: the call has panicked.
DefaultGraph == [nodes |-> <<>>, edges |-> <<>>, origin |-> <<>>, panic |-> FALSE]

add_node(g, weight, from) ==
  [g EXCEPT !.nodes = Append(@, weight), !.origin = Append(@, from)]

add_edge(g, a, b, weight) ==
  [g EXCEPT !.edges = Append(@, [a |-> a, b |-> b, weight |-> weight])]

\* impl Into<Atom> for crate::Atom; None is panic!()
into_atom(a) ==
  IF a.kind = "AliphaticOrganic"
    THEN Some([kind |-> "AliphaticOrganic", inner |-> a.inner])
    ELSE None

\* Option<BondOrDot> -> Option<Bond>:
\* .map(|n| match n { BondOrDot::Bond(bond) => Some(bond), _ => None }).flatten()
bond_of(bod) == IF bod # None /\ bod[1] # "Dot" THEN bod ELSE None

\* the weight of the edge from the new node to previous_node
edge_bond(ch, branch_bond) ==
  IF branch_bond # None THEN branch_bond[1]
  ELSE IF bond_of(ch.bond_or_dot) # None THEN bond_of(ch.bond_or_dot)[1]
  ELSE "Single"

\* add_current_node, but a chain that carries a dot gets no edge to the
\* previous node
add_current_node_dot_unjoined(g, ch, previous_node, branch_bond, from) ==
  Let(add_node(g, into_atom(ch.branched_atom.atom)[1], from),
      LAMBDA g1 :
        IF previous_node # None /\ ch.bond_or_dot # Some("Dot")
          THEN add_edge(g1, Len(g1.nodes), previous_node[1], edge_bond(ch, branch_bond))
          ELSE g1)

\* graph.add_node(..) and, with a previous node, graph.add_edge(..)
add_current_node(g, ch, previous_node, branch_bond, from) ==
  Let(add_node(g, into_atom(ch.branched_atom.atom)[1], from),
      LAMBDA g1 :
        IF previous_node # None
          THEN add_edge(g1, Len(g1.nodes), previous_node[1], edge_bond(ch, branch_bond))
          ELSE g1)

RECURSIVE add_chain_to_graph(_, _, _, _, _), add_branches(_, _, _, _, _)

\* add_tail, but the tail of the chain is not walked
add_tail_skipped(g, ch, current_node, from) == g

\* if let Some(chain) = &chain.chain { add_chain_to_graph(.., Some(current_node), None) }
add_tail(g, ch, current_node, from) ==
  IF ch.chain # None
    THEN add_chain_to_graph(g, ch.chain[1], Some(current_node), None, Append(from, 0))
    ELSE g

\* add_chain_to_graph, but the branches are walked before the tail
add_chain_to_graph_branches_first(g, ch, previous_node, branch_bond, from) ==
  IF g.panic THEN g
  ELSE IF into_atom(ch.branched_atom.atom) = None THEN [g EXCEPT !.panic = TRUE]
  ELSE Let(add_current_node(g, ch, previous_node, branch_bond, from),
           LAMBDA g2 :
             Let(add_branches(g2, ch.branched_atom.branches, 1, Len(g2.nodes), from),
                 LAMBDA g3 : add_tail(g3, ch, Len(g2.nodes), from)))

add_chain_to_graph(g, ch, previous_node, branch_bond, from) ==
  IF g.panic THEN g
  ELSE IF into_atom(ch.branched_atom.atom) = None THEN [g EXCEPT !.panic = TRUE]
  ELSE Let(add_current_node(g, ch, previous_node, branch_bond, from),
           LAMBDA g2 :
             Let(add_tail(g2, ch, Len(g2.nodes), from),
                 LAMBDA g3 :
                   add_branches(g3, ch.branched_atom.branches, 1, Len(g2.nodes), from)))

\* for branch in branched_atom.branches, from the k-th branch on
add_branches(g, branches, k, current_node, from) ==
  IF k > Len(branches) \/ g.panic THEN g
  ELSE Let(add_chain_to_graph(g, branches[k].chain, Some(current_node),
                              bond_of(branches[k].bond_or_dot), Append(from, k)),
           LAMBDA g1 : add_branches(g1, branches, k + 1, current_node, from))

\* the target bond count of an atom; None is .expect("Can't handle this atom yet")
desired_bonds_num(a) ==
  IF a.kind = "AliphaticOrganic"
    THEN CASE a.inner.element = Carbon -> Some(4)
           [] a.inner.element = Phosphorus -> Some(5)
           [] a.inner.element = Oxygen -> Some(2)
           [] OTHER -> None
    ELSE None

\* the order of a bond; None is panic!("Can't handle this bond type yet")
bond_order(b) ==
  CASE b = "Single" -> Some(1)
    [] b = "Double" -> Some(2)
    [] OTHER -> None

\* graph.edges(n): the edges with an end at n
edges_at(g, n) == {e \in 1..Len(g.edges) : g.edges[e].a = n \/ g.edges[e].b = n}

RECURSIVE SumOrders(_, _)
SumOrders(g, es) ==
  IF es = {} THEN 0
  ELSE Let(CHOOSE x \in es : TRUE,
           LAMBDA e : bond_order(g.edges[e].weight)[1] + SumOrders(g, es \ {e}))

\* the sum of the bond orders at n; None when an edge panics
current_bonds_num(g, n) ==
  Let(edges_at(g, n),
      LAMBDA es :
        IF \E e \in es : bond_order(g.edges[e].weight) = None THEN None
        ELSE Some(SumOrders(g, es)))

\* for _ in 0..needed_hydrogen
RECURSIVE add_hydrogens(_, _, _)
add_hydrogens(g, atom_index, needed_hydrogen) ==
  IF needed_hydrogen = 0 THEN g
  ELSE Let(add_node(g, [kind |-> "Element", inner |-> Hydrogen], <<-1>>),
           LAMBDA g1 :
             Let(add_edge(g1, atom_index, Len(g1.nodes), "Single"),
                 LAMBDA g2 : add_hydrogens(g2, atom_index, needed_hydrogen - 1)))

\* one turn of the loop of fill_graph_with_hydrogen, for the node atom_index.
\* desired - current is a usize subtraction: below zero it panics with overflow
\* checks, and without them it wraps to a count of hydrogens no graph can hold,
\* which ends in a panic of add_node or in an abort for lack of memory.
fill_atom(g, atom_index) ==
  Let(desired_bonds_num(g.nodes[atom_index]),
      LAMBDA desired :
        IF desired = None THEN [g EXCEPT !.panic = TRUE]
        ELSE Let(current_bonds_num(g, atom_index),
                 LAMBDA current :
                   IF current = None THEN [g EXCEPT !.panic = TRUE]
                   ELSE IF desired[1] < current[1] THEN [g EXCEPT !.panic = TRUE]
                   ELSE add_hydrogens(g, atom_index, desired[1] - current[1])))

\* fill_graph_with_hydrogen, but the loop goes on over the nodes it adds
RECURSIVE fill_graph_with_hydrogen_live_range(_, _, _)
fill_graph_with_hydrogen_live_range(g, atom_index, node_count) ==
  IF atom_index > Len(g.nodes) \/ g.panic THEN g
  ELSE Let(fill_atom(g, atom_index),
           LAMBDA g1 : fill_graph_with_hydrogen_live_range(g1, atom_index + 1, node_count))

\* for atom_index in graph.node_indices(): the range is fixed when the loop
\* starts, at the node_count nodes of the walk
RECURSIVE fill_graph_with_hydrogen(_, _, _)
fill_graph_with_hydrogen(g, atom_index, node_count) ==
  IF atom_index > node_count \/ g.panic THEN g
  ELSE Let(fill_atom(g, atom_index),
           LAMBDA g1 : fill_graph_with_hydrogen(g1, atom_index + 1, node_count))

(************************ find_main_carbon_chain ***************************)
\* most nodes of an enumerated graph
MaxGraphNodes == 4

\* the filter of NodeFiltered::from_fn
is_carbon(a) == a.kind = "AliphaticOrganic" /\ a.inner.element = Carbon

\* carbon_atoms.node_identifiers(): the nodes the filter lets through
carbon_atoms(g) == {n \in 1..Len(g.nodes) : is_carbon(g.nodes[n])}

\* the neighbours of n in the filtered graph
carbon_neighbors(g, n) ==
  {m \in carbon_atoms(g) :
     \E e \in 1..Len(g.edges) : {g.edges[e].a, g.edges[e].b} = {n, m}}

\* the cost astar finds with edge cost 1 and estimate 0: the number of edges
\* of a shortest path to finish, None when finish is not reached
RECURSIVE astar_search(_, _, _, _, _)
astar_search(g, finish, visited, frontier, cost) ==
  IF finish \in frontier THEN Some(cost)
  ELSE IF frontier = {} THEN None
  ELSE astar_search(g, finish, visited \cup frontier,
                    (UNION {carbon_neighbors(g, n) : n \in frontier}) \ (visited \cup frontier),
                    cost + 1)

astar_cost(g, start, finish) == astar_search(g, finish, {}, {start}, 0)

\* the paths astar can hand back for a cost: which of the shortest paths it
\* is depends on the order of its heap
RECURSIVE astar_paths(_, _, _, _)
astar_paths(g, start, n, cost) ==
  IF cost = 0 THEN (IF n = start THEN {<<start>>} ELSE {})
  ELSE UNION {{Append(p, n) : p \in astar_paths(g, start, m, cost - 1)}
                : m \in {m \in carbon_neighbors(g, n) :
                           astar_cost(g, start, m) = Some(cost - 1)}}

\* node_ids.permutations(2): the ordered pairs of two different carbon nodes
node_pairs(g) == {pair \in carbon_atoms(g) \X carbon_atoms(g) : pair[1] # pair[2]}

\* the place of a pair in the order permutations(2) yields them
pair_before(p, q) == p[1] < q[1] \/ (p[1] = q[1] /\ p[2] <= q[2])

\* longest_pair, but with min_by_key for max_by_key
longest_pair_min_by_key(g, pairs, costs) ==
  Let(CHOOSE c \in costs : \A d \in costs : c[1] <= d[1],
      LAMBDA least :
        Let({p \in pairs : astar_cost(g, p[1], p[2]) = least},
            LAMBDA shortest : CHOOSE p \in shortest : \A q \in shortest : pair_before(p, q)))

\* all_paths.into_iter().max_by_key(|n| n.0): the last of the pairs whose
\* cost is the greatest of costs
longest_pair(g, pairs, costs) ==
  Let(CHOOSE c \in costs : \A d \in costs : d[1] <= c[1],
      LAMBDA greatest :
        Let({p \in pairs : astar_cost(g, p[1], p[2]) = greatest},
            LAMBDA longest : CHOOSE p \in longest : \A q \in longest : pair_before(q, p)))

\* the results of find_main_carbon_chain; {} when an unwrap() panics
find_main_carbon_chain(g) ==
  Let(node_pairs(g),
      LAMBDA pairs :
        Let({astar_cost(g, p[1], p[2]) : p \in pairs},
            LAMBDA costs :
              IF costs = {} \/ None \in costs THEN {}
              ELSE Let(longest_pair(g, pairs, costs),
                       LAMBDA p :
                         astar_paths(g, p[1], p[2], astar_cost(g, p[1], p[2])[1]))))

(****************************** inputs *************************************)
Cat(X, Y) == {x \o y : x \in X, y \in Y}

\* every byte string over A of length at most n
StringsUpTo(A, n) == UNION {[1..k -> A] : k \in 0..n}

ChainAlphabet == {"C", "O", "=", ".", "(", ")", "1"}
DefectAlphabet == {"C", "(", ")", "[", "]", "X"}

\* the strings the grammar chain / branched_atom / branch derives with at most
\* n atoms, from atoms A, separators S (bond_or_dot or nothing) and ring-bond
\* strings R
RECURSIVE GenChain(_, _, _, _), GenBranches(_, _, _, _)
GenBranchedAtom(n, A, S, R) == Cat(Cat(A, R), GenBranches(n - 1, A, S, R))

GenChain(n, A, S, R) ==
  UNION {Cat(Cat(GenBranchedAtom(k, A, S, R), S), {<<>>} \cup GenChain(n - k, A, S, R))
           : k \in 1..n}

GenBranches(n, A, S, R) ==
  {<<>>} \cup
    UNION {Cat(Cat(Cat(Cat({<<"(">>}, S), GenChain(k, A, S, R)), {<<")">>}),
               GenBranches(n - k, A, S, R)) : k \in 1..n}

\* most atoms in a generated chain of carbons with separators and ring bonds
MaxAtoms == 2
\* most atoms in a generated chain of carbons with branches alone
MaxBranchAtoms == 5
OrganicAtoms == {RawAliphaticOrganic[i] : i \in 1..Len(RawAliphaticOrganic)}

SmallChains == GenChain(MaxAtoms, {<<"C">>}, {<<>>, <<"=">>, <<".">>}, {<<>>, <<"1">>})
BranchChains == GenChain(MaxBranchAtoms, {<<"C">>}, {<<>>}, {<<>>})
\* one or two atoms of the organic subset, with or without a bond between them
OrganicChains ==
  OrganicAtoms \cup Cat(Cat(OrganicAtoms, {<<>>, <<"=">>, <<"#">>}), OrganicAtoms)

\* the chirality tags that are legal inside a bracket atom
LegalChiralityTags ==
  {<<"@">>, <<"@", "@">>}
    \cup {ChiralityTag(TH, n) : n \in 1..2} \cup {ChiralityTag(AL, n) : n \in 1..2}
    \cup {ChiralityTag(SP, n) : n \in 1..3} \cup {ChiralityTag(TB, n) : n \in 1..20}
    \cup {ChiralityTag(OH, n) : n \in 1..30}

\* bracket atoms: every chirality tag on two symbols, and the other fields
\* on carbon
BracketAtoms ==
  Cat(Cat(Cat({<<"[">>}, {<<"C">>, <<"A", "s">>}), {<<>>} \cup LegalChiralityTags),
      {<<"]">>})
    \cup Cat(Cat(Cat(Cat(Cat({<<"[">>}, {<<>>, <<"1", "6">>}), {<<"C">>, <<"N", "a">>, <<"c">>}),
                     {<<>>, <<"H">>, <<"H", "3">>}),
                 {<<>>, <<"+">>, <<"-", "-">>, <<"+", "3">>}),
             {<<"]">>})

ValidSamples ==
  { <<"C", "1", "C", "C", "1">>,
    <<"C", "-", "C">>,
    <<"C", "-", "C", "=", "1", "C", "=", "1">>,
    <<"C", "1", "C", "C", "C", "2", "(", "C", "C", "1", ")", "C", "O", "2">>,
    <<"C", "1", "C", "C", "1", "C", "2", "C", "O", "2">>,
    <<"[", "N", "a", "+", "]", ".", "[", "C", "l", "-", "]">>,
    <<"F", "[", "A", "s", "@", "T", "B", "1", "5", "]", "(", "C", "l", ")", "(", "S", ")", "(", "B", "r", ")", "N">>,
    <<"C", "C", "(", "C", ")", "(", "C", ")", "(", "C", ")", "C">>,
    <<"C", "C", "(", "C", ")", "(", "C", ")", "C">>,
    <<"[", "1", "6", "C", "-", "-", "]">>,
    <<"[", "1", "6", "C", "H", "+", "3", "]", "C", "C">>,
    <<"C", "(", "C", "=", "C", ")">>,
    <<"C", "O", "C">>,
    <<"C", "(", "O", ")", "(", "N", ")", "C">> }

\* inputs the grammar derives
ValidInputs ==
  SmallChains \cup BranchChains \cup OrganicChains \cup BracketAtoms \cup ValidSamples

OtherSamples ==
  { <<"C", "1", "C", "C">>,
    <<"C", "[", "X", "x", "]">>,
    <<"C", "(", "C", "(", "C", ")">>,
    <<"C", "[", "C", "@", "O", "H", "3">>,
    <<"C", ".", "[", "N", "a", "+", "]">>,
    <<"C", "(", ".", "C", ")", "C">>,
    <<"C", "%", "1", "2", "C", "%", "1", "2">> }

Inputs ==
  ValidInputs \cup OtherSamples
    \cup StringsUpTo(ChainAlphabet, MaxLen) \cup StringsUpTo(DefectAlphabet, MaxDefectLen)

(****************************** actions ************************************)
Init ==
  /\ input \in Inputs
  /\ overflow_checks \in BOOLEAN
  /\ pc = "start"
  /\ res = Err
  /\ graph = DefaultGraph

\* chain(input)
Parse ==
  /\ pc = "start"
  /\ \E r \in {chain(input)} :
       /\ res' = r
       /\ pc' = IF r.panic THEN "parse_panic" ELSE IF r.ok THEN "parsed" ELSE "parse_error"
  /\ UNCHANGED <<input, overflow_checks, graph>>

\* MoleculeGraph::from_chain(chain): the walk of the Chain, then the hydrogens
FromChain ==
  /\ pc = "parsed"
  /\ \E w \in {add_chain_to_graph(DefaultGraph, res.val, None, None, <<>>)} :
       \E g \in {IF w.panic THEN w ELSE fill_graph_with_hydrogen(w, 1, Len(w.nodes))} :
         /\ graph' = IF g.panic THEN DefaultGraph ELSE g
         /\ pc' = IF g.panic THEN "from_chain_panic" ELSE "returned"
  /\ UNCHANGED <<input, overflow_checks, res>>

Next == Parse \/ FromChain

Spec == Init /\ [][Next]_vars

(*************************** the walk alone ********************************)
\* add_chain_to_graph(&mut graph, &chain, None, None) on MoleculeGraph::default()
AddChainToGraph ==
  /\ pc = "parsed"
  /\ \E w \in {add_chain_to_graph(DefaultGraph, res.val, None, None, <<>>)} :
       /\ graph' = IF w.panic THEN DefaultGraph ELSE w
       /\ pc' = IF w.panic THEN "walk_panic" ELSE "walked"
  /\ UNCHANGED <<input, overflow_checks, res>>

NextWalk == Parse \/ AddChainToGraph

SpecWalk == Init /\ [][NextWalk]_vars

(*********************** the walk, then the hydrogens ***********************)
\* fill_graph_with_hydrogen(&mut graph) on the graph the walk left.  A panic
\* unwinds from_chain and the graph is dropped; graph then keeps the graph the
\* call was handed.
FillGraphWithHydrogen ==
  /\ pc = "walked"
  /\ \E g \in {fill_graph_with_hydrogen(graph, 1, Len(graph.nodes))} :
       /\ graph' = IF g.panic THEN graph ELSE g
       /\ pc' = IF g.panic THEN "fill_panic" ELSE "filled"
  /\ UNCHANGED <<input, overflow_checks, res>>

NextFill == Parse \/ AddChainToGraph \/ FillGraphWithHydrogen

SpecFill == Init /\ [][NextFill]_vars

(************************* the recognizers alone ***************************)
\* what may follow a chirality tag in a bracket atom, and the end of input
ChiralitySuffixes == {<<>>, <<"]">>, <<"H">>, <<"+">>, <<"-", "]">>}

\* most runs of an enumerated charge
MaxRuns == 3

ChargeRuns ==
  Cat({<<"+">>, <<"-">>}, {<<>>, <<"1">>, <<"2">>, <<"3">>, <<"1", "2">>, <<"9", "9">>})

RECURSIVE RunStrings(_)
RunStrings(n) == IF n = 0 THEN {<<>>} ELSE {<<>>} \cup Cat(ChargeRuns, RunStrings(n - 1))

\* charges, and one run before the end of a bracket atom or a third digit
ChargeInputs ==
  RunStrings(MaxRuns) \cup Cat(ChargeRuns, {<<"]">>, <<"5">>, <<"+", "]">>})

\* longest byte string enumerated over DigitsAlphabet
MaxDigitsLen == 4

DigitsAlphabet == {"%", "0", "1", "2", "5", "C"}

\* the texts of the fields of a bracket atom, and what may follow it
IsotopeTexts == {<<>>, <<"0">>, <<"1", "6">>, <<"0", "1", "6">>}
SymbolTexts == {<<"C">>, <<"H">>, <<"N", "a">>, <<"c">>}
ChiralTexts == {<<>>, <<"@">>, <<"@", "T", "B", "1", "5">>}
HcountTexts == {<<>>, <<"H">>, <<"H", "3">>}
ChargeTexts == {<<>>, <<"+", "3">>, <<"-", "-">>}
AfterBracket == {<<>>, <<"C", "C">>}

BracketInputs ==
  Cat(Cat(Cat(Cat(Cat(Cat(Cat({<<"[">>}, IsotopeTexts \cup {<<"1", "2", "3", "4">>}),
                              SymbolTexts),
                          ChiralTexts),
                      HcountTexts \cup {<<"H", "1", "2">>}),
                  ChargeTexts),
              {<<"]">>, <<>>}),
      AfterBracket)

\* every symbol of the recognizers, alone and before other bytes
SymbolInputs ==
  Cat({RawSymbolTags[i] : i \in 1..Len(RawSymbolTags)}, {<<>>, <<"]">>, <<"x">>, <<"C", "l">>})

LexInputs ==
  Cat(LegalChiralityTags, ChiralitySuffixes)
    \cup {<<>>, <<"C">>, <<"T", "H", "1">>, <<"@", "T", "H">>, <<"@", "O", "H", "3", "1">>}
    \cup ChargeInputs
    \cup StringsUpTo(DigitsAlphabet, MaxDigitsLen)
    \cup BracketInputs
    \cup SymbolInputs

InitLex ==
  /\ input \in LexInputs
  /\ overflow_checks \in BOOLEAN
  /\ pc = "start"
  /\ res = Err
  /\ graph = DefaultGraph

\* chirality(input)
Chirality ==
  /\ pc = "start"
  /\ \E r \in {chirality(input)} :
       /\ res' = r
       /\ pc' = "chirality"
  /\ UNCHANGED <<input, overflow_checks, graph>>

\* charge(input)
Charge ==
  /\ pc = "start"
  /\ \E r \in {charge(input)} :
       /\ res' = r
       /\ pc' = IF r.panic THEN "charge_panic" ELSE "charge"
  /\ UNCHANGED <<input, overflow_checks, graph>>

\* bond_digits(input)
BondDigits ==
  /\ pc = "start"
  /\ \E r \in {bond_digits(input)} :
       /\ res' = r
       /\ pc' = "bond_digits"
  /\ UNCHANGED <<input, overflow_checks, graph>>

\* isotope_opt(input)
IsotopeOpt ==
  /\ pc = "start"
  /\ \E r \in {isotope_opt(input)} :
       /\ res' = r
       /\ pc' = "isotope_opt"
  /\ UNCHANGED <<input, overflow_checks, graph>>

\* bracket_atom(input)
BracketAtom ==
  /\ pc = "start"
  /\ \E r \in {bracket_atom(input)} :
       /\ res' = r
       /\ pc' = IF r.panic THEN "bracket_atom_panic" ELSE "bracket_atom"
  /\ UNCHANGED <<input, overflow_checks, graph>>

\* symbol(input)
Symbol ==
  /\ pc = "start"
  /\ \E r \in {symbol(input)} :
       /\ res' = r
       /\ pc' = "symbol"
  /\ UNCHANGED <<input, overflow_checks, graph>>

\* aliphatic_organic_atom(input)
AliphaticOrganicAtom ==
  /\ pc = "start"
  /\ \E r \in {aliphatic_organic_atom(input)} :
       /\ res' = r
       /\ pc' = "aliphatic_organic_atom"
  /\ UNCHANGED <<input, overflow_checks, graph>>

NextLex ==
  \/ Chirality
  \/ Charge
  \/ BondDigits
  \/ IsotopeOpt
  \/ BracketAtom
  \/ Symbol
  \/ AliphaticOrganicAtom

SpecLex == InitLex /\ [][NextLex]_vars

(************************ graphs handed to a search ************************)
CarbonAtom == [kind |-> "AliphaticOrganic", inner |-> [element |-> Carbon]]

\* what is no carbon: an oxygen at the odd places, a hydrogen at the even ones
OtherAtom(i) ==
  IF i % 2 = 1 THEN [kind |-> "AliphaticOrganic", inner |-> [element |-> Oxygen]]
  ELSE [kind |-> "Element", inner |-> Hydrogen]

\* the pairs a < b of 1..n, in increasing order
NodePairs(n) ==
  SelectSeq([i \in 1..(n * n) |-> <<((i - 1) \div n) + 1, ((i - 1) % n) + 1>>],
            LAMBDA pr : pr[1] < pr[2])

\* one Single edge for each pair of a set of pairs, in the order of their places
EdgesOf(pairs, chosen) ==
  LET picked == SelectSeq(pairs, LAMBDA pr : pr \in chosen)
  IN [k \in 1..Len(picked) |-> [a |-> picked[k][1], b |-> picked[k][2], weight |-> "Single"]]

\* the graph of n nodes with these carbons and these pairs joined
GraphOf(n, carbons, chosen) ==
  [nodes |-> [i \in 1..n |-> IF i \in carbons THEN CarbonAtom ELSE OtherAtom(i)],
   edges |-> EdgesOf(NodePairs(n), chosen),
   origin |-> [i \in 1..n |-> <<>>],
   panic |-> FALSE]

\* a graph of up to MaxGraphNodes nodes: any of them carbons, any pairs joined
InitGraph ==
  /\ input = <<>>
  /\ overflow_checks = FALSE
  /\ pc = "graph"
  /\ res = Err
  /\ \E n \in 0..MaxGraphNodes :
       \E carbons \in SUBSET (1..n) :
         \E chosen \in SUBSET {pr \in (1..n) \X (1..n) : pr[1] < pr[2]} :
           graph = GraphOf(n, carbons, chosen)

\* graph.find_main_carbon_chain()
FindMainCarbonChain ==
  /\ pc = "graph"
  /\ \E found \in {find_main_carbon_chain(graph)} :
       \/ /\ found = {}
          /\ res' = Panicked
          /\ pc' = "find_panic"
       \/ \E path \in found :
            /\ res' = Ok(<<>>, path)
            /\ pc' = "found"
  /\ UNCHANGED <<input, overflow_checks, graph>>

NextGraph == FindMainCarbonChain

SpecGraph == InitGraph /\ [][NextGraph]_vars

(*********************** reading a Chain and a graph ***********************)
\* the places of the BranchedAtoms of a Chain: <<>> is its head, p \o <<0>> the
\* head of the tail of the chain at p, p \o <<k>> the head of its k-th branch
RECURSIVE Places(_, _)
Places(ch, from) ==
  {from}
    \cup (IF ch.chain # None THEN Places(ch.chain[1], Append(from, 0)) ELSE {})
    \cup UNION {Places(ch.branched_atom.branches[k].chain, Append(from, k))
                  : k \in 1..Len(ch.branched_atom.branches)}

RECURSIVE ChainAt(_, _)
ChainAt(ch, place) ==
  IF place = <<>> THEN ch
  ELSE ChainAt(IF Head(place) = 0 THEN ch.chain[1]
               ELSE ch.branched_atom.branches[Head(place)].chain,
               Tail(place))

Parsed == pc \in {"parsed", "returned", "from_chain_panic"}
Returned == pc = "returned"

\* the node made for the BranchedAtom at a place
NodeOf(place) == CHOOSE n \in 1..Len(graph.origin) : graph.origin[n] = place

EdgesBetween(m, n) ==
  {e \in 1..Len(graph.edges) : {graph.edges[e].a, graph.edges[e].b} = {m, n}}

\* the nodes an edge joins to a node of S, and S
Grow(S) ==
  S \cup {n \in 1..Len(graph.nodes) :
            \E e \in 1..Len(graph.edges) :
              \/ graph.edges[e].a = n /\ graph.edges[e].b \in S
              \/ graph.edges[e].b = n /\ graph.edges[e].a \in S}

RECURSIVE Component(_)
Component(S) == IF Grow(S) = S THEN S ELSE Component(Grow(S))

(******************************* C1 ****************************************)
\* C1: in the graph from_chain returns, two consecutive branched atoms of a chain that are not
\* separated by a dot are joined by exactly one edge, and it carries the bond
\* written between them, Single when nothing is written.
C1_BondBetweenNeighbours ==
  Returned =>
    \A p \in Places(res.val, <<>>) :
      LET ch == ChainAt(res.val, p)
      IN (ch.chain # None /\ ch.bond_or_dot # Some("Dot")) =>
           LET between == EdgesBetween(NodeOf(p), NodeOf(Append(p, 0)))
           IN /\ Cardinality(between) = 1
              /\ \A e \in between :
                   graph.edges[e].weight =
                     IF ch.bond_or_dot = None THEN "Single" ELSE ch.bond_or_dot[1]

(******************************* C2 ****************************************)
RingNumbers(ch) ==
  {ch.branched_atom.ring_bonds[i].ring_number : i \in 1..Len(ch.branched_atom.ring_bonds)}

\* C2: in the graph from_chain returns, two atoms that carry the same ring number are joined by
\* an edge.
C2_RingClosureEdge ==
  Returned =>
    \A p, q \in Places(res.val, <<>>) :
      (p # q /\ RingNumbers(ChainAt(res.val, p)) \cap RingNumbers(ChainAt(res.val, q)) # {})
        => EdgesBetween(NodeOf(p), NodeOf(q)) # {}

(******************************* C3 ****************************************)
\* C3: in the graph from_chain returns, two consecutive branched atoms separated by a dot have
\* no edge between them, and a chain with a dot between two atoms of its top
\* level gives a graph of more than one component.
C3_DotAddsNoEdge ==
  Returned =>
    /\ \A p \in Places(res.val, <<>>) :
         LET ch == ChainAt(res.val, p)
         IN (ch.chain # None /\ ch.bond_or_dot = Some("Dot")) =>
              EdgesBetween(NodeOf(p), NodeOf(Append(p, 0))) = {}
    /\ (\E p \in Places(res.val, <<>>) :
          /\ \A i \in 1..Len(p) : p[i] = 0
          /\ ChainAt(res.val, p).chain # None
          /\ ChainAt(res.val, p).bond_or_dot = Some("Dot"))
         => Component({1}) # 1..Len(graph.nodes)

(******************************* C4 ****************************************)
\* C4: chain reads every input of the grammar, with every chirality tag of the
\* grammar among its bracket atoms, to its end: it returns Ok and leaves
\* nothing unread.
C4_GrammarInputsParse ==
  (pc # "start" /\ input \in ValidInputs) => (res.ok /\ res.rest = <<>>)

(******************************* C5 ****************************************)
StartsWith(in, t) == Len(in) >= Len(t) /\ SubSeq(in, 1, Len(t)) = t

\* the chirality classes that carry a number, and the largest number of each
ChiralityTable ==
  { [letters |-> TH, class |-> "Tetrahedral", max |-> 2],
    [letters |-> AL, class |-> "Allenal", max |-> 2],
    [letters |-> SP, class |-> "SquarePlanar", max |-> 3],
    [letters |-> TB, class |-> "TrigonalBipyramidal", max |-> 20],
    [letters |-> OH, class |-> "Octahedral", max |-> 30] }

\* C5: chirality gives the class and the number of the longest tag the input
\* starts with, and consumes exactly that tag.
C5_LongestChiralityTag ==
  pc = "chirality" =>
    \A row \in ChiralityTable : \A n \in 1..row.max :
      LET t == ChiralityTag(row.letters, n)
      IN (/\ StartsWith(input, t)
          /\ \A m \in 1..row.max :
               StartsWith(input, ChiralityTag(row.letters, m))
                 => Len(ChiralityTag(row.letters, m)) <= Len(t))
           => /\ res.ok
              /\ res.val = [class |-> row.class, n |-> n]
              /\ res.rest = Drop(input, Len(t))

(******************************* C6 ****************************************)
\* an independent reading of an input as atoms and separators: a bracket
\* atom runs to its "]", Cl and Br are two bytes, anything else is one byte
TokenLen(s) ==
  IF Head(s) = "["
    THEN IF \E i \in 1..Len(s) : s[i] = "]"
           THEN CHOOSE i \in 1..Len(s) : s[i] = "]" /\ \A j \in 1..(i - 1) : s[j] # "]"
           ELSE Len(s)
  ELSE IF Len(s) >= 2 /\ SubSeq(s, 1, 2) \in {<<"C", "l">>, <<"B", "r">>} THEN 2
  ELSE 1

RECURSIVE Tokens(_)
Tokens(s) ==
  IF s = <<>> THEN <<>>
  ELSE <<SubSeq(s, 1, TokenLen(s))>> \o Tokens(SubSeq(s, TokenLen(s) + 1, Len(s)))

SeparatorName(tok) ==
  CASE tok = <<"-">> -> "Single"
    [] tok = <<"=">> -> "Double"
    [] tok = <<"#">> -> "Triple"
    [] tok = <<"$">> -> "Quadruple"
    [] tok = <<":">> -> "Aromatic"
    [] tok = <<"/">> -> "Up"
    [] tok = <<"\\">> -> "Down"
    [] tok = <<".">> -> "Dot"

IsSeparator(tok) ==
  tok \in {<<"-">>, <<"=">>, <<"#">>, <<"$">>, <<":">>, <<"/">>, <<"\\">>, <<".">>}

IsAtomToken(tok) == ~IsSeparator(tok) /\ atom(tok).ok /\ atom(tok).rest = <<>>

\* a1 s1 a2 s2 ... an: atoms, with at most one separator between two of them
Unbranched(toks) ==
  /\ toks # <<>>
  /\ \A i \in 1..Len(toks) : IsSeparator(toks[i]) \/ IsAtomToken(toks[i])
  /\ IsAtomToken(toks[1])
  /\ IsAtomToken(toks[Len(toks)])
  /\ \A i \in 1..(Len(toks) - 1) : ~(IsSeparator(toks[i]) /\ IsSeparator(toks[i + 1]))

\* the positions of the atoms among the tokens, in increasing order
AtomPositions(toks) == SelectSeq([i \in 1..Len(toks) |-> i], LAMBDA i : IsAtomToken(toks[i]))

\* the chain i - 1 tails below ch
RECURSIVE Level(_, _)
Level(ch, i) == IF i = 1 THEN ch ELSE Level(ch.chain[1], i - 1)

NestingOf(toks, ch) ==
  LET at == AtomPositions(toks)
      n == Len(at)
  IN \A i \in 1..n :
       /\ \A j \in 1..(i - 1) : Level(ch, j).chain # None
       /\ LET lvl == Level(ch, i)
          IN /\ lvl.branched_atom.atom = atom(toks[at[i]]).val
             /\ lvl.branched_atom.ring_bonds = <<>>
             /\ lvl.branched_atom.branches = <<>>
             /\ lvl.bond_or_dot =
                  IF i < n /\ at[i + 1] > at[i] + 1
                    THEN Some(SeparatorName(toks[at[i] + 1]))
                    ELSE None
             /\ (lvl.chain = None) <=> (i = n)

\* C6: for an unbranched input a1 s1 a2 ... an, chain returns a right-nested
\* Chain: the level i tails below the top holds a_i and the separator
\* written after a_i, and has a tail exactly when i < n.
C6_RightNestedChain ==
  (pc # "start" /\ Unbranched(Tokens(input)))
    => (res.ok /\ res.rest = <<>> /\ NestingOf(Tokens(input), res.val))

\* an unbranched input of three or more atoms, one separator written, one not
C6_Witness ==
  /\ pc = "parsed"
  /\ Unbranched(Tokens(input))
  /\ Len(AtomPositions(Tokens(input))) >= 3
  /\ \E i \in 1..Len(Tokens(input)) : IsSeparator(Tokens(input)[i])
  /\ \E i \in 1..(Len(Tokens(input)) - 1) :
       IsAtomToken(Tokens(input)[i]) /\ IsAtomToken(Tokens(input)[i + 1])

(******************************* C7 ****************************************)
\* a "[" with no "]" after it
UnclosedBracket(s) ==
  \E i \in 1..Len(s) : s[i] = "[" /\ \A j \in (i + 1)..Len(s) : s[j] # "]"

\* a "[" followed by a letter that begins no symbol ("X" begins only Xe)
UnknownSymbol(s) ==
  \E i \in 1..(Len(s) - 1) :
    /\ s[i] = "["
    /\ s[i + 1] = "X"
    /\ (i + 2 > Len(s) \/ s[i + 2] # "e")

\* the "(" less the ")" of s[i..j]
RECURSIVE Balance(_, _, _)
Balance(s, i, j) ==
  IF i > j THEN 0
  ELSE Balance(s, i, j - 1) + (IF s[j] = "(" THEN 1 ELSE IF s[j] = ")" THEN -1 ELSE 0)

\* a "(" that no later ")" closes
UnmatchedParen(s) ==
  \E i \in 1..Len(s) : s[i] = "(" /\ \A j \in i..Len(s) : Balance(s, i, j) > 0

Defective(s) == UnclosedBracket(s) \/ UnknownSymbol(s) \/ UnmatchedParen(s)

NodesUnder(place) ==
  {n \in 1..Len(graph.origin) : StartsWith(graph.origin[n], place)}

BranchCount(ch) == Len(ch.branched_atom.branches)

IsHydrogen(n) == graph.origin[n] = <<-1>>

HydrogensAt(n) ==
  Cardinality({h \in 1..Len(graph.nodes) : IsHydrogen(h) /\ EdgesBetween(n, h) # {}})

OrderOf(b) ==
  CASE b = "Single" -> 1
    [] b = "Double" -> 2
    [] b = "Triple" -> 3
    [] b = "Quadruple" -> 4
    [] OTHER -> 1

RECURSIVE OrderSum(_)
OrderSum(es) ==
  IF es = {} THEN 0
  ELSE LET e == CHOOSE x \in es : TRUE
       IN OrderOf(graph.edges[e].weight) + OrderSum(es \ {e})

\* the sum of the orders of the bonds of n to the atoms of the input
BondSum(n) ==
  OrderSum({e \in 1..Len(graph.edges) :
              /\ n \in {graph.edges[e].a, graph.edges[e].b}
              /\ ~IsHydrogen(graph.edges[e].a)
              /\ ~IsHydrogen(graph.edges[e].b)})

Targets(element) ==
  CASE element = <<"C">> -> {4}
    [] element = <<"N">> -> {3}
    [] element = <<"O">> -> {2}
    [] element = <<"B">> -> {3}
    [] element \in {<<"F">>, <<"C", "l">>, <<"B", "r">>, <<"I">>} -> {1}
    [] element = <<"P">> -> {3, 5}
    [] element = <<"S">> -> {2, 4, 6}

\* C9: in the graph from_chain returns, an organic atom with bond sum s has
\* target - s hydrogens, the target being the smallest valence of its element
\* that is at least s.
C9_HydrogensFillTheTarget ==
  Returned =>
    \A n \in 1..Len(graph.nodes) :
      (~IsHydrogen(n) /\ graph.nodes[n].kind = "AliphaticOrganic") =>
        \E t \in Targets(graph.nodes[n].inner.element) :
          /\ t >= BondSum(n)
          /\ \A u \in Targets(graph.nodes[n].inner.element) : u >= BondSum(n) => t <= u
          /\ HydrogensAt(n) = t - BondSum(n)

(******************************* C10 ***************************************)
\* bracket atoms only, with nothing or a dot between them
BracketAtomsOnly(ch) ==
  \A p \in Places(ch, <<>>) :
    /\ ChainAt(ch, p).branched_atom.atom.kind = "Bracket"
    /\ ChainAt(ch, p).bond_or_dot \in {None, Some("Dot")}

\* C10: from_chain returns a graph for a Chain of bracket atoms, with one node
\* for each of them.
C10_BracketAtomsAccepted ==
  (pc \in {"returned", "from_chain_panic"} /\ BracketAtomsOnly(res.val))
    => /\ pc = "returned"
       /\ \A p \in Places(res.val, <<>>) : \E n \in 1..Len(graph.origin) : graph.origin[n] = p

Searched == pc \in {"found", "find_panic"}

CarbonNodes == {n \in 1..Len(graph.nodes) : graph.nodes[n] = CarbonAtom}

\* C12: on a graph with no carbon node find_main_carbon_chain returns, and
\* what it returns is the empty sequence.
C12_NoCarbonsGiveEmpty ==
  (Searched /\ CarbonNodes = {}) => (pc = "found" /\ res.val = <<>>)

(******************************* C13 ***************************************)
Joined(m, n) == EdgesBetween(m, n) # {}

\* the carbons at most k edges from a, going through carbons only
RECURSIVE Within(_, _)
Within(a, k) ==
  IF k = 0 THEN {a}
  ELSE LET near == Within(a, k - 1)
       IN near \cup {n \in CarbonNodes : \E m \in near : Joined(m, n)}

CarbonsConnected ==
  \A a \in CarbonNodes : Within(a, Cardinality(CarbonNodes)) = CarbonNodes

\* the number of edges of a shortest path of carbons from a to b
Distance(a, b) ==
  CHOOSE k \in 0..Cardinality(CarbonNodes) :
    b \in Within(a, k) /\ (k = 0 \/ b \notin Within(a, k - 1))

\* C13: on a graph whose carbons are two or more and connected,
\* find_main_carbon_chain returns a sequence of carbon nodes, each joined to
\* the next by an edge, that is a shortest path between its ends and has as
\* many edges as the greatest distance between two carbons.
C13_LongestShortestPath ==
  (Searched /\ Cardinality(CarbonNodes) >= 2 /\ CarbonsConnected) =>
    /\ pc = "found"
    /\ res.val # <<>>
    /\ \A i \in 1..Len(res.val) : res.val[i] \in CarbonNodes
    /\ \A i \in 1..(Len(res.val) - 1) : Joined(res.val[i], res.val[i + 1])
    /\ Len(res.val) - 1 = Distance(res.val[1], res.val[Len(res.val)])
    /\ \A a, b \in CarbonNodes : Distance(a, b) <= Len(res.val) - 1

\* a path of three or more carbons found in a graph that has a cycle of
\* carbons and a node that is no carbon
C13_Witness ==
  /\ pc = "found"
  /\ Len(res.val) >= 3
  /\ CarbonsConnected
  /\ Len(graph.edges) >= Cardinality(CarbonNodes)
  /\ CarbonNodes # 1..Len(graph.nodes)

(******************************* C14 ***************************************)
AllOrganic(ch) ==
  \A p \in Places(ch, <<>>) : ChainAt(ch, p).branched_atom.atom.kind = "AliphaticOrganic"

\* C14: the walk of a Chain of aliphatic organic atoms ends without a panic
\* and leaves exactly one node for each BranchedAtom of the Chain, and no
\* other node.
C14_OneNodePerBranchedAtom ==
  (pc \in {"walked", "walk_panic"} /\ AllOrganic(res.val)) =>
    /\ pc = "walked"
    /\ Len(graph.nodes) = Cardinality(Places(res.val, <<>>))
    /\ \A p \in Places(res.val, <<>>) :
         Cardinality({n \in 1..Len(graph.nodes) : graph.origin[n] = p}) = 1

\* a walk of a Chain with a branch inside a branch and a tail
C14_Witness ==
  /\ pc = "walked"
  /\ \E p \in Places(res.val, <<>>) :
       /\ Len(p) >= 2
       /\ p[1] >= 1
       /\ p[2] >= 1
  /\ res.val.chain # None

(******************************* C15 ***************************************)
\* the occurrences of ring number r in a Chain: a place and a position among
\* the ring bonds of its BranchedAtom
RingOccurrences(ch, r) ==
  UNION {{<<p, i>> : i \in {i \in 1..Len(ChainAt(ch, p).branched_atom.ring_bonds) :
                              ChainAt(ch, p).branched_atom.ring_bonds[i].ring_number = r}}
           : p \in Places(ch, <<>>)}

AllRingNumbers(ch) == UNION {RingNumbers(ChainAt(ch, p)) : p \in Places(ch, <<>>)}

UnmatchedRing(ch) ==
  \E r \in AllRingNumbers(ch) : Cardinality(RingOccurrences(ch, r)) % 2 = 1

\* C15: from_chain returns no graph for a Chain in which a ring number occurs
\* an odd number of times.
C15_UnmatchedRingIsRefused ==
  (Parsed /\ UnmatchedRing(res.val)) => pc # "returned"

(******************************* C16 ***************************************)
IsSign(c) == c \in {"+", "-"}

\* the digits of the run at the start of s: those after the sign, two at most
MagnitudeLen(s) ==
  IF Len(s) >= 3 /\ is_digit(s[2]) /\ is_digit(s[3]) THEN 2
  ELSE IF Len(s) >= 2 /\ is_digit(s[2]) THEN 1
  ELSE 0

\* s is nothing but runs
RECURSIVE IsRuns(_)
IsRuns(s) ==
  \/ s = <<>>
  \/ (IsSign(s[1]) /\ IsRuns(SubSeq(s, 2 + MagnitudeLen(s), Len(s))))

\* what the run at the start of s is worth
RunValue(s) ==
  LET magnitude == CASE MagnitudeLen(s) = 0 -> 1
                     [] MagnitudeLen(s) = 1 -> DigitVal(s[2])
                     [] MagnitudeLen(s) = 2 -> 10 * DigitVal(s[2]) + DigitVal(s[3])
  IN IF s[1] = "+" THEN magnitude ELSE -magnitude

\* the sum of the runs of s, after a sum of acc
RECURSIVE SignedSum(_, _)
SignedSum(s, acc) ==
  IF s = <<>> THEN acc
  ELSE SignedSum(SubSeq(s, 2 + MagnitudeLen(s), Len(s)), acc + RunValue(s))

\* the running sum of the runs of s, after a sum of acc, stays an i8
RECURSIVE RunningSumFits(_, _)
RunningSumFits(s, acc) ==
  /\ acc \in -128..127
  /\ (s # <<>> => RunningSumFits(SubSeq(s, 2 + MagnitudeLen(s), Len(s)), acc + RunValue(s)))

\* C16: on an input that is nothing but runs, whose running sum stays within
\* -128..127, charge returns the signed sum of the runs and leaves nothing
\* unread; a run without digits counts for 1, and no run at all gives 0.
C16_ChargeIsTheSignedSum ==
  (pc \in {"charge", "charge_panic"} /\ IsRuns(input) /\ RunningSumFits(input, 0)) =>
    /\ pc = "charge"
    /\ res.ok
    /\ res.rest = <<>>
    /\ res.val = SignedSum(input, 0)

\* a charge of three runs of both signs, one of them without digits and one
\* with two digits
C16_Witness ==
  /\ pc = "charge"
  /\ IsRuns(input)
  /\ RunningSumFits(input, 0)
  /\ \E i, j \in 1..Len(input) : input[i] = "+" /\ input[j] = "-"
  /\ \E i \in 1..Len(input) : IsSign(input[i]) /\ (i = Len(input) \/ IsSign(input[i + 1]))
  /\ \E i \in 1..(Len(input) - 1) : is_digit(input[i]) /\ is_digit(input[i + 1])
  /\ Cardinality({i \in 1..Len(input) : IsSign(input[i])}) >= 3

(******************************* C17 ***************************************)
\* C17: bond_digits reads one digit d, giving d and consuming one byte, or
\* "%" and two digits, giving their two-digit value and consuming three
\* bytes; it fails on every other input.
C17_BondDigitsForms ==
  pc = "bond_digits" =>
    IF input # <<>> /\ is_digit(input[1])
      THEN /\ res.ok
           /\ res.val = DigitVal(input[1])
           /\ res.rest = SubSeq(input, 2, Len(input))
    ELSE IF Len(input) >= 3 /\ input[1] = "%" /\ is_digit(input[2]) /\ is_digit(input[3])
      THEN /\ res.ok
           /\ res.val = 10 * DigitVal(input[2]) + DigitVal(input[3])
           /\ res.rest = SubSeq(input, 4, Len(input))
    ELSE ~res.ok

\* "%" and three digits: the third is left
C17_Witness ==
  /\ pc = "bond_digits"
  /\ Len(input) = 4
  /\ input[1] = "%"
  /\ \A i \in 2..4 : is_digit(input[i])
  /\ res.ok
  /\ res.rest = <<input[4]>>

(******************************* C18 ***************************************)
\* the number a string of digits writes
RECURSIVE DecimalValue(_)
DecimalValue(ds) ==
  IF ds = <<>> THEN 0
  ELSE 10 * DecimalValue(SubSeq(ds, 1, Len(ds) - 1)) + DigitVal(ds[Len(ds)])

\* the digits at the start of s
RECURSIVE DigitRun(_)
DigitRun(s) ==
  IF s # <<>> /\ is_digit(s[1]) THEN <<s[1]>> \o DigitRun(SubSeq(s, 2, Len(s))) ELSE <<>>

SymbolOfText(t) ==
  IF t = <<"c">> THEN [kind |-> "AromaticSymbol", element |-> <<"C">>]
  ELSE [kind |-> "ElementSymbol", element |-> t]

ChiralOfText(t) ==
  CASE t = <<>> -> None
    [] t = <<"@">> -> Some([class |-> "Anticlockwise", n |-> 0])
    [] t = <<"@", "T", "B", "1", "5">> -> Some([class |-> "TrigonalBipyramidal", n |-> 15])

HcountOfText(t) ==
  IF t = <<>> THEN 0 ELSE IF Len(t) = 1 THEN 1 ELSE DigitVal(t[2])

\* the fields of a bracket atom written as these texts
FieldsOfTexts(iso, sym, chi, h, chg) ==
  [isotope |-> IF iso = <<>> THEN None ELSE Some(DecimalValue(iso)),
   symbol |-> SymbolOfText(sym),
   chiral |-> ChiralOfText(chi),
   hcount |-> HcountOfText(h),
   charge |-> SignedSum(chg, 0)]

\* C18: bracket_atom reads isotope, symbol, chirality, hcount and charge in
\* this order between "[" and "]" and leaves what follows the "]"; the isotope
\* is the value of up to three digits, or absent; hcount is 0 without "H", 1
\* for "H" alone and d for "H" and the digit d.  isotope_opt takes three
\* digits at most, and a bracket atom with a fourth digit is not read.
C18_BracketAtomFields ==
  /\ pc = "bracket_atom" =>
       /\ \A iso \in IsotopeTexts, sym \in SymbolTexts, chi \in ChiralTexts,
             h \in HcountTexts, chg \in ChargeTexts, after \in AfterBracket :
            input = <<"[">> \o iso \o sym \o chi \o h \o chg \o <<"]">> \o after
              => /\ res.ok
                 /\ res.val = FieldsOfTexts(iso, sym, chi, h, chg)
                 /\ res.rest = after
       /\ (Len(DigitRun(SubSeq(input, 2, Len(input)))) >= 4 => ~res.ok)
  /\ pc = "isotope_opt" =>
       LET digits == DigitRun(input)
           taken == IF Len(digits) > 3 THEN 3 ELSE Len(digits)
       IN /\ res.ok
          /\ res.val = IF taken = 0 THEN None ELSE Some(DecimalValue(SubSeq(digits, 1, taken)))
          /\ res.rest = SubSeq(input, taken + 1, Len(input))

\* a bracket atom with every field but chirality, and two atoms after it
C18_Witness ==
  /\ pc = "bracket_atom"
  /\ input = <<"[", "1", "6", "C", "H", "+", "3", "]", "C", "C">>
  /\ res.ok
  /\ res.val.isotope = Some(16)
  /\ res.val.hcount = 1
  /\ res.val.charge = 3
  /\ res.rest = <<"C", "C">>

(******************************* C19 ***************************************)
\* the two-letter symbols whose first letter is a symbol too
PrefixedSymbols ==
  {TwoLetterSymbols[i] : i \in {i \in 1..Len(TwoLetterSymbols) :
     \E j \in 1..Len(OneLetterSymbols) : OneLetterSymbols[j] = <<TwoLetterSymbols[i][1]>>}}

\* C19: on an input that starts with a two-letter symbol whose first letter
\* is a symbol too, symbol consumes both letters and gives the two-letter
\* element; aliphatic_organic_atom gives chlorine on Cl and bromine on Br.
C19_TwoLettersFirst ==
  /\ pc = "symbol" =>
       \A t \in PrefixedSymbols :
         StartsWith(input, t) =>
           /\ res.ok
           /\ res.val = [kind |-> "ElementSymbol", element |-> t]
           /\ res.rest = SubSeq(input, 3, Len(input))
  /\ pc = "aliphatic_organic_atom" =>
       \A t \in {<<"C", "l">>, <<"B", "r">>} :
         StartsWith(input, t) =>
           /\ res.ok
           /\ res.val = [element |-> t]
           /\ res.rest = SubSeq(input, 3, Len(input))

\* osmium read before the end of a bracket atom
C19_Witness ==
  /\ pc = "symbol"
  /\ input = <<"O", "s", "]">>
  /\ res.ok
  /\ res.val.element = <<"O", "s">>
  /\ res.rest = <<"]">>

(******************************* C20 ***************************************)
IsBondByte(c) == c \in {"-", "=", "#", "$", ":", "/", "\\"}

\* an atom of one byte, a bond, and then no ring number
BondAfterFirstAtom ==
  /\ Len(input) >= 2
  /\ input[1] \in {"C", "O", "N", "F"}
  /\ IsBondByte(input[2])
  /\ (Len(input) >= 3 => ~is_digit(input[3]) /\ input[3] # "%")

\* C20: a bond after an atom that no ring number follows is not lost to the
\* failed ring_bond: chain keeps it as the bond_or_dot of the atom and goes on
\* after it; and chain fails, without a panic, on the empty input.
C20_FailureConsumesNothing ==
  /\ (pc # "start" /\ BondAfterFirstAtom) =>
       /\ res.ok
       /\ res.val.branched_atom.ring_bonds = <<>>
       /\ res.val.bond_or_dot = Some(SeparatorName(<<input[2]>>))
       /\ \E k \in 2..Len(input) : res.rest = SubSeq(input, k + 1, Len(input))
  /\ (pc # "start" /\ input = <<>>) => (pc = "parse_error" /\ ~res.ok /\ ~res.panic)

\* C-C: the bond ring_bond gave back joins the two atoms
C20_Witness ==
  /\ pc = "parsed"
  /\ input = <<"C", "-", "C">>
  /\ res.val.bond_or_dot = Some("Single")
  /\ res.val.chain # None
  /\ res.rest = <<>>

(******************************* C21 ***************************************)
\* C21: in the graph from_chain returns, a branched atom and the first atom of
\* each of its branches are joined by exactly one edge; it carries the bond
\* the branch starts with, and Single when the branch starts with no bond or
\* dot, whatever bond is written after the first atom of the branch.
C21_BranchEdgeLabel ==
  Returned =>
    \A p \in Places(res.val, <<>>) :
      \A k \in 1..BranchCount(ChainAt(res.val, p)) :
        LET lead == ChainAt(res.val, p).branched_atom.branches[k].bond_or_dot
            between == EdgesBetween(NodeOf(p), NodeOf(Append(p, k)))
        IN lead # Some("Dot") =>
             /\ Cardinality(between) = 1
             /\ \A e \in between :
                  graph.edges[e].weight = IF lead = None THEN "Single" ELSE lead[1]

(******************************* C22 ***************************************)
Filled == pc \in {"filled", "fill_panic"}

\* the nodes the walk made: those of the atoms of the input
AtomNodes == {n \in 1..Len(graph.nodes) : ~IsHydrogen(n)}

\* the target of a node of the walk, for the elements that have one
TargetOf(n) ==
  CASE graph.nodes[n].inner.element = Carbon -> 4
    [] graph.nodes[n].inner.element = Phosphorus -> 5
    [] graph.nodes[n].inner.element = Oxygen -> 2

\* carbon, phosphorus and oxygen atoms joined by Single and Double bonds
FillHandlesGraph ==
  /\ \A n \in AtomNodes :
       /\ graph.nodes[n].kind = "AliphaticOrganic"
       /\ graph.nodes[n].inner.element \in {Carbon, Phosphorus, Oxygen}
  /\ \A e \in 1..Len(graph.edges) : graph.edges[e].weight \in {"Single", "Double"}

Overfull(n) == BondSum(n) > TargetOf(n)

\* C22: on a graph of carbon, phosphorus and oxygen atoms joined by Single
\* and Double bonds, the hydrogen filling ends without a panic and gives every
\* atom max(0, target - sum) hydrogens: none to an atom whose bond sum
\* reaches or exceeds its target.
C22_HydrogensNeverNegative ==
  (Filled /\ FillHandlesGraph) =>
    /\ pc = "filled"
    /\ \A n \in AtomNodes :
         HydrogensAt(n) = IF Overfull(n) THEN 0 ELSE TargetOf(n) - BondSum(n)

(******************************* C23 ***************************************)
\* C23: on runs whose signed sum is outside -128..127, charge ends without a
\* panic, and it either fails or returns the bound of i8 on the side of the
\* sum: 127 for a sum above, -128 for a sum below.
C23_ChargeOverflowClampsOrFails ==
  (pc \in {"charge", "charge_panic"} /\ IsRuns(input) /\ SignedSum(input, 0) \notin I8Min..I8Max) =>
    /\ pc = "charge"
    /\ res.ok => res.val = IF SignedSum(input, 0) > I8Max THEN I8Max ELSE I8Min

(******************************* C24 ***************************************)
\* carbon and oxygen atoms joined by Single and Double bonds, none with a
\* bond sum above its target
CarbonOxygenGraph ==
  /\ FillHandlesGraph
  /\ \A n \in AtomNodes :
       /\ graph.nodes[n].inner.element \in {Carbon, Oxygen}
       /\ ~Overfull(n)

\* the sum of the orders of all the bonds of n, those to hydrogens included
TotalSum(n) ==
  OrderSum({e \in 1..Len(graph.edges) : n \in {graph.edges[e].a, graph.edges[e].b}})

\* C24: on a graph of carbon and oxygen atoms joined by Single and Double
\* bonds, none above its target, the hydrogen filling ends without a panic;
\* after it every carbon has bond sum 4 and every oxygen 2, and every
\* hydrogen is a node added after the atoms, with one edge and no more, a
\* Single edge to an atom.
C24_ValenceClosed ==
  (Filled /\ CarbonOxygenGraph) =>
    /\ pc = "filled"
    /\ \A n \in AtomNodes : TotalSum(n) = TargetOf(n)
    /\ \A h \in (1..Len(graph.nodes)) \ AtomNodes :
         /\ graph.nodes[h] = [kind |-> "Element", inner |-> Hydrogen]
         /\ \A n \in AtomNodes : n < h
         /\ Cardinality({e \in 1..Len(graph.edges) :
                           h \in {graph.edges[e].a, graph.edges[e].b}}) = 1
         /\ \E n \in AtomNodes : \E e \in EdgesBetween(n, h) :
              graph.edges[e].weight = "Single"

\* CC(C)C filled: the central carbon has three carbon neighbours and one
\* hydrogen
C24_Witness ==
  /\ pc = "filled"
  /\ input = <<"C", "C", "(", "C", ")", "C">>
  /\ CarbonOxygenGraph
  /\ \E n \in AtomNodes :
       /\ Cardinality({m \in AtomNodes : graph.nodes[m] = CarbonAtom /\ Joined(m, n)}) = 3
       /\ HydrogensAt(n) = 1

(******************************* C25 ***************************************)
\* the edges with an end at n
EdgesAt(n) == {e \in 1..Len(graph.edges) : n \in {graph.edges[e].a, graph.edges[e].b}}

\* every node but the first came with one edge, to a node inserted before
\* it: the e-th edge joins node e + 1 to an earlier node
EdgeWithEachNode ==
  \A e \in 1..Len(graph.edges) :
    \E m \in 1..e : {graph.edges[e].a, graph.edges[e].b} = {m, e + 1}

IsTree ==
  /\ Len(graph.nodes) >= 1
  /\ Len(graph.edges) = Len(graph.nodes) - 1
  /\ EdgeWithEachNode
  /\ Component({1}) = 1..Len(graph.nodes)
  /\ \A m, n \in 1..Len(graph.nodes) :
       Cardinality(EdgesBetween(m, n)) <= (IF m = n THEN 0 ELSE 1)

Reachable(a, b) == b \in Within(a, Cardinality(CarbonNodes))

\* C26: on a graph with one carbon, or with carbons of which two are not
\* joined through carbons, find_main_carbon_chain returns: a sequence of
\* carbons, each joined to the next, that is a shortest path between its ends
\* and as long as the greatest distance between two carbons that reach one
\* another; the one carbon alone when there is only one.
C26_DisconnectedCarbonsReturn ==
  (Searched /\ CarbonNodes # {} /\ (Cardinality(CarbonNodes) = 1 \/ ~CarbonsConnected)) =>
    /\ pc = "found"
    /\ res.val # <<>>
    /\ \A i \in 1..Len(res.val) : res.val[i] \in CarbonNodes
    /\ \A i \in 1..(Len(res.val) - 1) : Joined(res.val[i], res.val[i + 1])
    /\ Len(res.val) - 1 = Distance(res.val[1], res.val[Len(res.val)])
    /\ \A a, b \in CarbonNodes : Reachable(a, b) => Distance(a, b) <= Len(res.val) - 1

(******************************* C27 ***************************************)
IsPlainAtom(c) == c \in {"C", "O"}
IsPlainSeparator(c) == c \in {"=", "."}

\* input[k] is a separator after the last atom of the input that can be
\* parsed: before it come plain atoms, with one separator or none between
\* two of them, and after it comes nothing, or a byte no atom starts with
TrailingSeparatorAt(k) ==
  /\ k \in 2..Len(input)
  /\ IsPlainSeparator(input[k])
  /\ IsPlainAtom(input[1])
  /\ \A i \in 1..(k - 1) :
       /\ IsPlainAtom(input[i]) \/ IsPlainSeparator(input[i])
       /\ IsPlainSeparator(input[i]) => IsPlainAtom(input[i + 1])
  /\ (k < Len(input) => input[k + 1] \in {")", "=", ".", "("})

\* the atoms before place k
AtomsBefore(k) == Cardinality({i \in 1..(k - 1) : IsPlainAtom(input[i])})

\* C27: when a separator comes after the last atom chain can parse, chain
\* returns Ok, the remainder starts after the separator, and the Chain of
\* the last atom holds the separator as its bond_or_dot and has no tail.
C27_TrailingSeparatorIsConsumed ==
  pc # "start" =>
    \A k \in 1..Len(input) :
      TrailingSeparatorAt(k) =>
        /\ res.ok
        /\ res.rest = SubSeq(input, k + 1, Len(input))
        /\ \A i \in 1..(AtomsBefore(k) - 1) : Level(res.val, i).chain # None
        /\ Level(res.val, AtomsBefore(k)).chain = None
        /\ Level(res.val, AtomsBefore(k)).bond_or_dot = Some(SeparatorName(<<input[k]>>))

\* C=) parsed: the bond is read, no tail follows it, and ")" is left
C27_Witness ==
  /\ pc = "parsed"
  /\ input = <<"C", "=", ")">>
  /\ TrailingSeparatorAt(2)
  /\ res.val.bond_or_dot = Some("Double")
  /\ res.val.chain = None
  /\ res.rest = <<")">>

====
